---- MODULE Spec2Model ----
(***************************************************************************)
(* Model of extract_doc_numbers.py: the input resolver, the element        *)
(* scanner and classifier, the stable priority sort and the command-line   *)
(* wrapper main.                                                           *)
(*                                                                         *)
(* A string is a sequence of one-character strings where the code looks    *)
(* at characters (attribute values, doc-number text), and a sequence of    *)
(* markup tokens (start tag, end tag, character data) where the code and   *)
(* the XML parser look at markup (the source and the file content).        *)
(***************************************************************************)
EXTENDS Integers, Sequences, FiniteSets, TLC

VARIABLES pc, argv, entry, xml_content, root, entries, result, error,
          stdout, stderr, status, doc_id, priority

vars == <<pc, argv, entry, xml_content, root, entries, result, error,
          stdout, stderr, status, doc_id, priority>>

(***************************************************************************)
(* Bounds of the model.                                                    *)
(***************************************************************************)
\* The largest number of document-id items in the documents whose items
\* differ in tier and value only.
MaxDocs == 3

\* The largest number of document-id items in the documents that also hold
\* the edge cases of the doc-number child.
MaxEdgeDocs == 2

(***************************************************************************)
(* Characters and strings.                                                 *)
(***************************************************************************)
Whitespace == {" ", "\n", "\t"}

\* A faulty variant of LowerChar: no case folding at all.
LowerCharIdentity(c) == c

\* str.lower() on one character.
LowerChar(c) ==
    CASE c = "E" -> "e" [] c = "P" -> "p" [] c = "O" -> "o"
      [] c = "A" -> "a" [] c = "T" -> "t" [] c = "N" -> "n"
      [] c = "F" -> "f" [] c = "I" -> "i" [] c = "C" -> "c"
      [] OTHER -> c

\* str.lower().
Lower(s) == [i \in 1..Len(s) |-> LowerChar(s[i])]

IsBlank(s) == \A i \in 1..Len(s) : s[i] \in Whitespace

RECURSIVE LStrip(_)
LStrip(s) ==
    IF s # <<>> /\ Head(s) \in Whitespace THEN LStrip(Tail(s)) ELSE s

RECURSIVE RStrip(_)
RStrip(s) ==
    IF s # <<>> /\ s[Len(s)] \in Whitespace
    THEN RStrip(SubSeq(s, 1, Len(s) - 1))
    ELSE s

\* str.strip().
Strip(s) == RStrip(LStrip(s))

Epo == <<"e", "p", "o">>

PatentOffice == <<"p", "a", "t", "e", "n", "t", "-", "o", "f", "f", "i", "c", "e">>

(***************************************************************************)
(* Markup tokens and the source text.                                      *)
(***************************************************************************)
Open(t, a) == [kind |-> "open", tag |-> t, attrs |-> a, chars |-> <<>>]

Close(t) == [kind |-> "close", tag |-> t, attrs |-> {}, chars |-> <<>>]

Txt(c) == [kind |-> "text", tag |-> "", attrs |-> {}, chars |-> c]

IsMarkup(tok) == tok.kind \in {"open", "close"}

\* source_str.strip().startswith('<') on the token sequence: whitespace-only
\* character data in front is stripped, and the text then starts with '<'
\* exactly when a tag comes first.
RECURSIVE StartsWithLT(_)
StartsWithLT(s) ==
    IF s = <<>> THEN FALSE
    ELSE IF IsMarkup(Head(s)) THEN TRUE
    ELSE IF IsBlank(Head(s).chars) THEN StartsWithLT(Tail(s))
    ELSE FALSE

(***************************************************************************)
(* The parsed tree: the elements in document order, each with the index    *)
(* of its parent (0 for the root) and its text (the character data before  *)
(* its first child, None when there is none).                              *)
(***************************************************************************)
Node(t, a, p) ==
    [tag |-> t, attrs |-> a, parent |-> p, hasText |-> FALSE, text |-> <<>>]

ParseOk(nodes) == [ok |-> TRUE, nodes |-> nodes, diag |-> ""]

ParseError(d) == [ok |-> FALSE, nodes |-> <<>>, diag |-> d]

HasMarkupFrom(toks, i) == \E j \in i..Len(toks) : IsMarkup(toks[j])

\* ET.fromstring on the tokens from position i on: nodes are the elements
\* built so far, stack the indices of the elements still open.
RECURSIVE ParseFrom(_, _, _, _)
ParseFrom(toks, i, nodes, stack) ==
    IF i > Len(toks)
    THEN IF nodes = <<>> \/ stack # <<>>
         THEN ParseError("no element found")
         ELSE ParseOk(nodes)
    ELSE LET tok == toks[i]
             top == IF stack = <<>> THEN 0 ELSE stack[Len(stack)]
         IN CASE tok.kind = "open" ->
                   IF stack = <<>> /\ nodes # <<>>
                   THEN ParseError("junk after document element")
                   ELSE ParseFrom(toks, i + 1,
                                  Append(nodes, Node(tok.tag, tok.attrs, top)),
                                  Append(stack, Len(nodes) + 1))
              [] tok.kind = "close" ->
                   IF stack = <<>>
                   THEN ParseError("not well-formed (invalid token)")
                   ELSE IF nodes[top].tag # tok.tag
                   THEN ParseError("mismatched tag")
                   ELSE ParseFrom(toks, i + 1, nodes,
                                  SubSeq(stack, 1, Len(stack) - 1))
              [] OTHER ->
                   IF stack = <<>>
                   THEN IF IsBlank(tok.chars)
                        THEN ParseFrom(toks, i + 1, nodes, stack)
                        ELSE IF nodes # <<>>
                        THEN ParseError("junk after document element")
                        ELSE IF HasMarkupFrom(toks, i + 1)
                        THEN ParseError("not well-formed (invalid token)")
                        ELSE ParseError("syntax error")
                   ELSE IF top = Len(nodes)
                   THEN ParseFrom(toks, i + 1,
                                  [nodes EXCEPT ![top].hasText = TRUE,
                                                ![top].text = @ \o tok.chars],
                                  stack)
                   ELSE ParseFrom(toks, i + 1, nodes, stack)

\* ET.fromstring(xml_content).
Parse(toks) == ParseFrom(toks, 1, <<>>, <<>>)

(***************************************************************************)
(* The element scanner and classifier.                                     *)
(***************************************************************************)
\* root.findall('.//document-id'): the descendants of the root with that
\* tag (the root itself is not among them), as the set of their indices;
\* they are visited in ascending index order, which is document order.
FindAll(nodes) ==
    {i \in 2..Len(nodes) : nodes[i].tag = "document-id"}

\* doc_id.find('doc-number'): the first direct child with that tag, 0 for None.
Find(nodes, i) ==
    LET kids == {j \in 1..Len(nodes) :
                    nodes[j].parent = i /\ nodes[j].tag = "doc-number"}
    IN IF kids = {} THEN 0
       ELSE CHOOSE j \in kids : \A k \in kids : j <= k

\* doc_id.get(name, default).
Get(attrs, name, default) ==
    IF \E p \in attrs : p[1] = name
    THEN (CHOOSE p \in attrs : p[1] = name)[2]
    ELSE default

\* _get_priority.
_get_priority(format_attr, load_source_attr) ==
    LET has_epo == format_attr = Epo
        has_patent_office == load_source_attr = PatentOffice
    IN IF has_epo /\ has_patent_office THEN 1
       ELSE IF has_epo THEN 2
       ELSE IF has_patent_office THEN 3
       ELSE 4

\* The tier the loop body gives one document-id element.
PriorityOf(attrs) ==
    _get_priority(Lower(Get(attrs, "format", <<>>)),
                 Lower(Get(attrs, "load-source", <<>>)))

\* The loop over findall's elements from index i on, appending to acc.
RECURSIVE ScanFrom(_, _, _)
ScanFrom(nodes, i, acc) ==
    IF i > Len(nodes) THEN acc
    ELSE IF i \notin FindAll(nodes) THEN ScanFrom(nodes, i + 1, acc)
    ELSE LET d == Find(nodes, i)
         IN IF d = 0 \/ ~nodes[d].hasText \/ nodes[d].text = <<>>
            THEN ScanFrom(nodes, i + 1, acc)
            ELSE LET doc_number == Strip(nodes[d].text)
                 IN IF doc_number = <<>>
                    THEN ScanFrom(nodes, i + 1, acc)
                    ELSE ScanFrom(nodes, i + 1,
                            Append(acc,
                                   [priority |-> PriorityOf(nodes[i].attrs),
                                    doc_number |-> doc_number]))

ScanEntries(nodes) == ScanFrom(nodes, 1, <<>>)

(***************************************************************************)
(* The stable priority sort.                                               *)
(***************************************************************************)
\* A faulty variant of InsertPos: an entry goes in front of the entries of its own
\* priority, which reverses them.
InsertPosLeft(sorted, e) ==
    Cardinality({k \in 1..Len(sorted) : sorted[k].priority < e.priority}) + 1

\* Where list.sort puts the next entry among those already sorted: behind
\* every entry whose key is not greater (the sort is stable).
InsertPos(sorted, e) ==
    Cardinality({k \in 1..Len(sorted) : sorted[k].priority <= e.priority}) + 1

InsertAt(s, k, e) == SubSeq(s, 1, k - 1) \o <<e>> \o SubSeq(s, k, Len(s))

RECURSIVE SortFrom(_, _, _)
SortFrom(es, i, sorted) ==
    IF i > Len(es) THEN sorted
    ELSE SortFrom(es, i + 1, InsertAt(sorted, InsertPos(sorted, es[i]), es[i]))

\* entries.sort(key=lambda x: x[0]).
SortByPriority(es) == SortFrom(es, 1, <<>>)

DocNumbers(es) == [i \in 1..Len(es) |-> es[i].doc_number]

(***************************************************************************)
(* The inputs: documents serialised to tokens, what the file system holds  *)
(* at the path the source names, and the command line.                     *)
(***************************************************************************)
DocNumber(v) == <<Open("doc-number", {}), Txt(v), Close("doc-number")>>

EmptyDocNumber == <<Open("doc-number", {}), Close("doc-number")>>

AttrSets ==
    { {},
      {<<"format", <<"E", "P", "O">>>>},
      {<<"load-source", PatentOffice>>},
      {<<"format", Epo>>, <<"load-source", <<"P", "a", "t", "e", "n", "t", "-",
                                             "O", "f", "f", "i", "c", "e">>>>} }

\* document-id items that differ in tier and value.
TierItems ==
    {[attrs |-> a, body |-> DocNumber(v)] : a \in AttrSets, v \in {<<"1">>, <<"2">>}}

\* The bodies of the edge cases: no doc-number child, one without text, one
\* of whitespace only, one with padded text, two doc-number children of
\* which the first is empty, siblings around the doc-number, and a
\* doc-number that is a grandchild.
EdgeBodies ==
    { <<>>,
      EmptyDocNumber,
      DocNumber(<<" ", " ">>),
      DocNumber(<<" ", "3", "\n">>),
      EmptyDocNumber \o DocNumber(<<"4">>),
      <<Open("country", {}), Txt(<<"U">>), Close("country")>> \o DocNumber(<<"5">>),
      <<Open("wrap", {})>> \o DocNumber(<<"6">>) \o <<Close("wrap")>> }

EdgeItems == {[attrs |-> {}, body |-> b] : b \in EdgeBodies}

Items == TierItems \cup EdgeItems

ItemTokens(it) ==
    <<Open("document-id", it.attrs)>> \o it.body \o <<Close("document-id")>>

RECURSIVE Flatten(_)
Flatten(its) ==
    IF its = <<>> THEN <<>> ELSE ItemTokens(Head(its)) \o Flatten(Tail(its))

\* The items as the children of a root element.
Flat(its) == <<Open("root", {})>> \o Flatten(its) \o <<Close("root")>>

\* The same with whitespace around the root and between the elements, as an
\* indented document has it.
RECURSIVE Indent(_)
Indent(toks) ==
    IF toks = <<>> THEN <<>>
    ELSE IF Len(toks) >= 2 /\ IsMarkup(toks[1]) /\ IsMarkup(toks[2])
              /\ ~(toks[1].kind = "open" /\ toks[2].kind = "close")
    THEN <<toks[1], Txt(<<"\n", " ">>)>> \o Indent(Tail(toks))
    ELSE <<Head(toks)>> \o Indent(Tail(toks))

Indented(its) == <<Txt(<<"\n", " ">>)>> \o Indent(Flat(its)) \o <<Txt(<<"\n">>)>>

\* The items two levels below the root.
Deep(its) ==
    <<Open("root", {}), Open("level1", {}), Open("level2", {})>> \o Flatten(its)
        \o <<Close("level2"), Close("level1"), Close("root")>>

\* The later items inside the first one.
Nested(its) ==
    IF its = <<>> THEN Flat(its)
    ELSE <<Open("root", {}), Open("document-id", Head(its).attrs)>>
            \o Head(its).body \o Flatten(Tail(its))
            \o <<Close("document-id"), Close("root")>>

\* A document whose root element is itself a document-id with a doc-number.
DocIdRoot(its) ==
    <<Open("document-id", {<<"format", Epo>>})>> \o DocNumber(<<"9">>)
        \o Flatten(its) \o <<Close("document-id")>>

\* Malformed documents: the root left open, its end tag wrong, text behind it.
Unclosed(its) == SubSeq(Flat(its), 1, Len(Flat(its)) - 1)

Mismatched(its) == Unclosed(its) \o <<Close("level1")>>

Junk(its) == Flat(its) \o <<Txt(<<"x">>)>>

WellFormed == {"flat", "indented", "deep", "nested", "docidroot"}

Malformed == {"unclosed", "mismatched", "junk"}

Shapes == WellFormed \cup Malformed

\* The document of the given shape with the given items.
Doc(shape, its) ==
    CASE shape = "flat" -> Flat(its)
      [] shape = "indented" -> Indented(its)
      [] shape = "deep" -> Deep(its)
      [] shape = "nested" -> Nested(its)
      [] shape = "docidroot" -> DocIdRoot(its)
      [] shape = "unclosed" -> Unclosed(its)
      [] shape = "mismatched" -> Mismatched(its)
      [] OTHER -> Junk(its)

\* The documents held in files, and given as XML text where the file system
\* holds something under that name: those of at most one item.
SmallDocs ==
    {Doc(sh, its) : sh \in Shapes, its \in {<<>>} \cup {<<it>> : it \in Items}}

\* Sources that are no XML text: 'nonexistent.xml', 'This is not XML',
\* 'test_data', and a name with whitespace in front.
NonexistentXml ==
    <<Txt(<<"n", "o", "n", "e", "x", "i", "s", "t", "e", "n", "t", ".", "x", "m", "l">>)>>

NotXmlText ==
    <<Txt(<<"T", "h", "i", "s", " ", "i", "s", " ", "n", "o", "t", " ", "X", "M", "L">>)>>

TestData == <<Txt(<<"t", "e", "s", "t", "_", "d", "a", "t", "a">>)>>

PaddedName == <<Txt(<<" ", "a", ".", "x", "m", "l">>)>>

PathSources == {NonexistentXml, NotXmlText, TestData, PaddedName}

\* What the file system holds at Path(source_str).
Absent == [kind |-> "absent", content |-> <<>>]

Dir == [kind |-> "dir", content |-> <<>>]

Undecodable == [kind |-> "undecodable", content |-> <<>>]

Denied == [kind |-> "denied", content |-> <<>>]

File(c) == [kind |-> "file", content |-> c]

\* The contents of the files: small documents, an empty file, plain text.
FileContents == SmallDocs \cup {<<>>, NotXmlText}

Unreadable == {Dir, Undecodable, Denied}

\* What the file system holds where the source is XML text as well.
Shadowing == Unreadable \cup {File(Flat(<<>>)), File(Junk(<<>>))}

\* What the file system holds where the source is not XML text.
PathEntries == {Absent} \cup Unreadable \cup {File(c) : c \in FileContents}

(***************************************************************************)
(* The state machine: main calls extract_doc_numbers, which resolves the   *)
(* input, parses it, scans the tree, sorts and returns.                    *)
(***************************************************************************)
NoError == [kind |-> "none", text |-> "", path |-> <<>>, diag |-> ""]

NoElement == [tag |-> "", attrs |-> {}]

source == argv[1]

Init ==
    /\ pc = "main"
    /\ \/ argv = <<>> /\ entry = Absent
       \/ \E m \in 0..MaxDocs : \E its \in [1..m -> TierItems] : \E sh \in Shapes :
             argv = <<Doc(sh, its)>> /\ entry = Absent
       \/ \E m \in 0..MaxEdgeDocs : \E its \in [1..m -> Items] : \E sh \in Shapes :
             argv = <<Doc(sh, its)>> /\ entry = Absent
       \/ \E s \in SmallDocs : \E e \in Shadowing : argv = <<s>> /\ entry = e
       \/ \E s \in PathSources : \E e \in PathEntries : argv = <<s>> /\ entry = e
    /\ xml_content = <<>>
    /\ root = <<>>
    /\ entries = <<>>
    /\ result = <<>>
    /\ error = NoError
    /\ stdout = <<>>
    /\ stderr = <<>>
    /\ status = 0
    /\ doc_id = NoElement
    /\ priority = 0

\* main with no argument: the usage line and exit status 1.
MainUsage ==
    /\ pc = "main"
    /\ Len(argv) < 1
    /\ stdout' = <<[kind |-> "usage", n |-> 0, text |-> <<>>]>>
    /\ status' = 1
    /\ pc' = "exited"
    /\ UNCHANGED <<argv, entry, xml_content, root, entries, result, error,
                   stderr, doc_id, priority>>

\* main calls extract_doc_numbers(sys.argv[1]).
MainCall ==
    /\ pc = "main"
    /\ Len(argv) >= 1
    /\ pc' = "resolve"
    /\ UNCHANGED <<argv, entry, xml_content, root, entries, result, error,
                   stdout, stderr, status, doc_id, priority>>

\* What path.read_text raises for an entry that is no readable UTF-8 file.
ReadDiag(e) ==
    CASE e.kind = "dir" -> "IsADirectoryError"
      [] e.kind = "undecodable" -> "UnicodeDecodeError"
      [] e.kind = "denied" -> "PermissionError"
      [] OTHER -> ""

\* A faulty variant of IsContent: nothing is taken for XML text when the path exists.
IsContentUnlessExists(s, e) == StartsWithLT(s) /\ e.kind = "absent"

\* The first test of the resolver: the source is XML text.
IsContent(s, e) == StartsWithLT(s)

\* path.exists().
Exists(e) == e.kind # "absent"

\* A faulty variant of FileReadErrorOf: the message leaves the path out.
FileReadErrorNoPath(s, e) ==
    [kind |-> "FileReadError", text |-> "Failed to read", path |-> <<>>,
     diag |-> ReadDiag(e)]

\* FileReadError(f"Failed to read {source}: {e}").
FileReadErrorOf(s, e) ==
    [kind |-> "FileReadError", text |-> "Failed to read", path |-> s,
     diag |-> ReadDiag(e)]

\* ValueError("Input must be either the path to an existing file or ...").
InvalidInputError ==
    [kind |-> "ValueError",
     text |-> "Input must be either the path to an existing file or an XML string starting with '<'.",
     path |-> <<>>, diag |-> ""]

\* A faulty variant of XMLParsingErrorOf: the parser's diagnostic is dropped.
XMLParsingErrorNoDiag(d) ==
    [kind |-> "XMLParsingError", text |-> "Invalid XML", path |-> <<>>, diag |-> ""]

\* XMLParsingError(f"Invalid XML: {e}").
XMLParsingErrorOf(d) ==
    [kind |-> "XMLParsingError", text |-> "Invalid XML", path |-> <<>>, diag |-> d]

\* Read XML content.
Resolve ==
    /\ pc = "resolve"
    /\ \/ /\ IsContent(source, entry)
          /\ xml_content' = source
          /\ pc' = "parse"
          /\ UNCHANGED error
       \/ /\ ~IsContent(source, entry)
          /\ Exists(entry)
          /\ entry.kind = "file"
          /\ xml_content' = entry.content
          /\ pc' = "parse"
          /\ UNCHANGED error
       \/ /\ ~IsContent(source, entry)
          /\ Exists(entry)
          /\ entry.kind # "file"
          /\ error' = FileReadErrorOf(source, entry)
          /\ pc' = "raised"
          /\ UNCHANGED xml_content
       \/ /\ ~IsContent(source, entry)
          /\ ~Exists(entry)
          /\ error' = InvalidInputError
          /\ pc' = "raised"
          /\ UNCHANGED xml_content
    /\ UNCHANGED <<argv, entry, root, entries, result, stdout, stderr, status,
                   doc_id, priority>>

\* Parse XML.
ParseXml ==
    /\ pc = "parse"
    /\ LET r == Parse(xml_content)
       IN \/ /\ r.ok
             /\ root' = r.nodes
             /\ pc' = "scan"
             /\ UNCHANGED error
          \/ /\ ~r.ok
             /\ error' = XMLParsingErrorOf(r.diag)
             /\ pc' = "raised"
             /\ UNCHANGED root
    /\ UNCHANGED <<argv, entry, xml_content, entries, result, stdout, stderr,
                   status, doc_id, priority>>

\* Extract doc-numbers with priorities.
Scan ==
    /\ pc = "scan"
    /\ entries' = ScanEntries(root)
    /\ pc' = "sort"
    /\ UNCHANGED <<argv, entry, xml_content, root, result, error, stdout,
                   stderr, status, doc_id, priority>>

\* Sort by priority and extract doc-numbers.
SortReturn ==
    /\ pc = "sort"
    /\ entries' = SortByPriority(entries)
    /\ result' = DocNumbers(entries')
    /\ pc' = "returned"
    /\ UNCHANGED <<argv, entry, xml_content, root, error, stdout, stderr,
                   status, doc_id, priority>>

\* The numbered list main prints.
Listing(nums) ==
    <<[kind |-> "header", n |-> Len(nums), text |-> <<>>],
      [kind |-> "rule", n |-> 0, text |-> <<>>]>>
    \o [i \in 1..Len(nums) |-> [kind |-> "item", n |-> i, text |-> nums[i]]]

\* main prints the result.
MainPrint ==
    /\ pc = "returned"
    /\ stdout' = Listing(result)
    /\ pc' = "exited"
    /\ UNCHANGED <<argv, entry, xml_content, root, entries, result, error,
                   stderr, status, doc_id, priority>>

\* The error kinds main's except clause names.
Caught == {"FileReadError", "XMLParsingError"}

\* except (FileReadError, XMLParsingError): the message and exit status 1.
MainCatch ==
    /\ pc = "raised"
    /\ error.kind \in Caught
    /\ stderr' = <<[kind |-> "error", n |-> 0, text |-> error]>>
    /\ status' = 1
    /\ pc' = "exited"
    /\ UNCHANGED <<argv, entry, xml_content, root, entries, result, error,
                   stdout, doc_id, priority>>

\* Any other exception leaves main uncaught: the interpreter prints the
\* traceback and ends with status 1.
MainUncaught ==
    /\ pc = "raised"
    /\ error.kind \notin Caught
    /\ stderr' = <<[kind |-> "traceback", n |-> 0, text |-> error]>>
    /\ status' = 1
    /\ pc' = "uncaught"
    /\ UNCHANGED <<argv, entry, xml_content, root, entries, result, error,
                   stdout, doc_id, priority>>

Next ==
    \/ MainUsage
    \/ MainCall
    \/ Resolve
    \/ ParseXml
    \/ Scan
    \/ SortReturn
    \/ MainPrint
    \/ MainCatch
    \/ MainUncaught

Spec == Init /\ [][Next]_vars

(***************************************************************************)
(* The classification of one document-id element on its own: the loop      *)
(* body's two attribute reads and _get_priority, applied to elements whose *)
(* attributes run over the letter-case variants of the two keywords and    *)
(* over values that do not match.                                          *)
(***************************************************************************)
UpperChar(c) ==
    CASE c = "e" -> "E" [] c = "p" -> "P" [] c = "o" -> "O"
      [] c = "a" -> "A" [] c = "t" -> "T" [] c = "n" -> "N"
      [] c = "f" -> "F" [] c = "i" -> "I" [] c = "c" -> "C"
      [] OTHER -> c

\* The spellings of w that differ from it in letter case only.
CaseVariants(w) ==
    {[i \in 1..Len(w) |-> IF i \in U THEN UpperChar(w[i]) ELSE w[i]] :
        U \in SUBSET (1..Len(w))}

FormatValues ==
    CaseVariants(Epo)
    \cup {<<>>, <<"e", "p">>, <<"e", "p", "o", "s">>, <<" ", "e", "p", "o">>,
          <<"o", "r", "i", "g", "i", "n", "a", "l">>, PatentOffice}

LoadSourceValues ==
    CaseVariants(PatentOffice)
    \cup {<<>>, <<"d", "o", "c", "d", "b">>, Epo,
          <<"p", "a", "t", "e", "n", "t", "o", "f", "f", "i", "c", "e">>}

FormatAttrs == {{}} \cup {{<<"format", v>>} : v \in FormatValues}

LoadSourceAttrs == {{}} \cup {{<<"load-source", v>>} : v \in LoadSourceValues}

InitTier ==
    /\ pc = "classify"
    /\ \E f \in FormatAttrs : \E l \in LoadSourceAttrs :
          doc_id = [tag |-> "document-id", attrs |-> f \cup l]
    /\ priority = 0
    /\ argv = <<>>
    /\ entry = Absent
    /\ xml_content = <<>>
    /\ root = <<>>
    /\ entries = <<>>
    /\ result = <<>>
    /\ error = NoError
    /\ stdout = <<>>
    /\ stderr = <<>>
    /\ status = 0

\* The loop body's classification of doc_id.
Classify ==
    /\ pc = "classify"
    /\ priority' = PriorityOf(doc_id.attrs)
    /\ pc' = "classified"
    /\ UNCHANGED <<argv, entry, xml_content, root, entries, result, error,
                   stdout, stderr, status, doc_id>>

NextTier == Classify

SpecTier == InitTier /\ [][NextTier]_vars

(***************************************************************************)
(* Properties.                                                             *)
(***************************************************************************)
\* extract_doc_numbers has returned or raised.
Finished == pc \in {"returned", "raised", "exited", "uncaught"} /\ Len(argv) >= 1

Returned == Finished /\ error.kind = "none"

ValuesOfTier(recs, t) ==
    DocNumbers(SelectSeq(recs, LAMBDA e : e.priority = t))

\* C1: the returned list is the stable sort by ascending tier of the records
\* the scan took in document order: the values of tier 1 in document order,
\* then those of tier 2, of tier 3 and of tier 4; and the sorted entries
\* never hold a higher tier in front of a lower one.
StablePriorityOrder ==
    Returned =>
        LET recs == ScanEntries(root)
        IN /\ result = ValuesOfTier(recs, 1) \o ValuesOfTier(recs, 2)
                          \o ValuesOfTier(recs, 3) \o ValuesOfTier(recs, 4)
           /\ \A i, j \in 1..Len(entries) :
                 i < j => entries[i].priority <= entries[j].priority
           /\ Len(result) = Len(recs)

\* A call has returned for a document in which a record of a lower tier
\* stands between two records of one tier that carry different values.
StablePriorityOrderWitness ==
    /\ Returned
    /\ LET recs == ScanEntries(root)
       IN \E i, j, k \in 1..Len(recs) :
             /\ i < j /\ j < k
             /\ recs[i].priority = recs[k].priority
             /\ recs[j].priority < recs[i].priority
             /\ recs[i].doc_number # recs[k].doc_number

\* The document-id elements of the whole tree, the root included, that have
\* a direct doc-number child with non-whitespace text.
QualifyingElements(nodes) ==
    {i \in 1..Len(nodes) :
        /\ nodes[i].tag = "document-id"
        /\ \E j \in 1..Len(nodes) :
              /\ nodes[j].parent = i
              /\ nodes[j].tag = "doc-number"
              /\ nodes[j].hasText
              /\ ~IsBlank(nodes[j].text)}

\* C2: the length of the returned list is the number of document-id elements,
\* at any depth from the root element downward, that have a direct doc-number
\* child with non-whitespace text.
LengthCountsEveryDocumentId ==
    Returned => Len(result) = Cardinality(QualifyingElements(root))

CaseInsensitiveEqual(s, t) ==
    /\ Len(s) = Len(t)
    /\ \A i \in 1..Len(s) : UpperChar(s[i]) = UpperChar(t[i])

AttrMatches(attrs, name, word) ==
    \E p \in attrs : p[1] = name /\ CaseInsensitiveEqual(p[2], word)

\* C3: the tier of a document-id element is given by the table over the two
\* case-insensitive matches, a missing attribute not matching: both give 1,
\* format alone 2, load-source alone 3, neither 4; so it is always in 1..4.
TierTable ==
    pc = "classified" =>
        LET f == AttrMatches(doc_id.attrs, "format", Epo)
            l == AttrMatches(doc_id.attrs, "load-source", PatentOffice)
        IN /\ priority \in 1..4
           /\ f /\ l => priority = 1
           /\ f /\ ~l => priority = 2
           /\ ~f /\ l => priority = 3
           /\ ~f /\ ~l => priority = 4

\* An element with format="ePo" and no load-source has been given tier 2.
TierTableWitness ==
    /\ pc = "classified"
    /\ doc_id.attrs = {<<"format", <<"e", "P", "o">>>>}
    /\ priority = 2

\* C4: a source that does not start with '<' and names no existing file
\* raises FileReadError.
MissingFileRaisesFileReadError ==
    (Finished /\ ~StartsWithLT(source) /\ entry.kind = "absent") =>
        error.kind = "FileReadError"

NotXmlTextRaisesXMLParsingError ==
    (Finished /\ source = NotXmlText /\ entry.kind = "absent") =>
        error.kind = "XMLParsingError"

\* C7: main with one argument ends either with the numbered list on standard
\* output, or, for every error of extract_doc_numbers, with the message on
\* standard error and a non-zero status; no error leaves main uncaught.
MainReportsEveryError ==
    (pc \in {"exited", "uncaught"} /\ Len(argv) >= 1) =>
        \/ /\ error.kind = "none"
           /\ pc = "exited"
           /\ stdout = Listing(result)
           /\ stderr = <<>>
        \/ /\ error.kind # "none"
           /\ pc = "exited"
           /\ stderr = <<[kind |-> "error", n |-> 0, text |-> error]>>
           /\ stdout = <<>>
           /\ status # 0

\* C8: content that starts with '<' after trimming and is not well-formed
\* raises XMLParsingError with the parser's diagnostic in the message and
\* returns no list, whatever the file system holds.
MalformedContentRaisesParsingError ==
    (Finished /\ StartsWithLT(source) /\ ~Parse(source).ok) =>
        /\ error.kind = "XMLParsingError"
        /\ error.diag = Parse(source).diag
        /\ error.diag # ""
        /\ result = <<>>
        /\ pc \in {"raised", "exited"}
        /\ stdout = <<>>

\* An unclosed document, under whose name the file system holds a well-formed
\* file, has raised XMLParsingError "no element found".
MalformedContentWitness ==
    /\ pc = "raised"
    /\ source = Unclosed(<<>>)
    /\ entry = File(Flat(<<>>))
    /\ error.kind = "XMLParsingError"
    /\ error.diag = "no element found"

\* The text between the first and the last character that is no whitespace.
Trimmed(s) ==
    LET keep == {i \in 1..Len(s) : s[i] \notin Whitespace}
    IN IF keep = {} THEN <<>>
       ELSE SubSeq(s, CHOOSE i \in keep : \A k \in keep : i <= k,
                      CHOOSE i \in keep : \A k \in keep : k <= i)

DocumentIds(nodes) == {i \in 1..Len(nodes) : nodes[i].tag = "document-id"}

\* What a document-id element is to contribute: nothing when its doc-number
\* child is missing or has absent, empty or whitespace-only text, else the
\* trimmed text of that child.
Contribution(nodes, i) ==
    LET d == Find(nodes, i)
    IN IF d = 0 THEN <<>> ELSE Trimmed(nodes[d].text)

Occurrences(seq, v) == Cardinality({k \in 1..Len(seq) : seq[k] = v})

NoBlankEnds(v) ==
    v # <<>> /\ v[1] \notin Whitespace /\ v[Len(v)] \notin Whitespace

\* The values of the returned list are non-empty and without whitespace at
\* either end.
ValuesAreTrimmed == Returned => \A k \in 1..Len(result) : NoBlankEnds(result[k])

\* C9: every returned value is non-empty and has no whitespace at either
\* end; a document-id whose doc-number child is missing or blank gives no
\* entry, and every other document-id gives exactly one entry, the trimmed
\* text of its doc-number child.
TrimmedEntryPerDocumentId ==
    Returned =>
        /\ \A k \in 1..Len(result) : NoBlankEnds(result[k])
        /\ Len(result) =
              Cardinality({i \in DocumentIds(root) : Contribution(root, i) # <<>>})
        /\ \A i \in DocumentIds(root) :
              Contribution(root, i) # <<>> =>
                 Occurrences(result, Contribution(root, i)) =
                    Cardinality({k \in DocumentIds(root) :
                                    Contribution(root, k) = Contribution(root, i)})

\* C10: a source that does not start with '<' and names something that is no
\* readable UTF-8 file raises FileReadError with the path in the message;
\* nothing is parsed and no list is returned.
UnreadablePathRaisesFileReadError ==
    (Finished /\ ~StartsWithLT(source) /\ entry \in Unreadable) =>
        /\ error.kind = "FileReadError"
        /\ error.path = source
        /\ error.diag # ""
        /\ xml_content = <<>>
        /\ root = <<>>
        /\ result = <<>>
        /\ pc \in {"raised", "exited"}

\* A call with 'test_data', a directory, has raised FileReadError.
UnreadablePathWitness ==
    /\ pc = "raised"
    /\ source = TestData
    /\ entry = Dir
    /\ error.kind = "FileReadError"
    /\ error.path = TestData

====
